---- MODULE Spec2Model ----
(***************************************************************************)
(* Model of sourcefile-rs (src/lib.rs): SourceFile, a concatenation of     *)
(* files with the tables needed to map a byte offset of the concatenation  *)
(* back to (file name, line, column).                                      *)
(*                                                                         *)
(* A String is modelled as the sequence of its UTF-8 bytes (integers), so  *)
(* that str::len, the split on '\n' and byte offsets are byte based as in  *)
(* the source.  usize arithmetic is modelled on the naturals: every sum    *)
(* the code forms is bounded by the length of a buffer held in memory.     *)
(***************************************************************************)
EXTENDS Integers, Sequences, FiniteSets, TLC

\* ------------------------------------------------------------------ bounds
\* Cap on the number of bytes the aggregate buffer may hold.
MaxBytes == 3
\* Cap on the number of append calls (add_file and add_file_raw together).
MaxCalls == 3

\* ------------------------------------------------------------------ text
\* The newline byte the builder splits on: '\n'.
NL == 10

\* The characters input texts are made of, each as its UTF-8 encoding: '\r',
\* '\n' and the two-byte U+00E9.  The builder tests bytes against '\n' only,
\* so '\r' also stands for every other one-byte character.
Chars == { <<13>>, <<10>>, <<195, 169>> }

\* A byte that continues a multi-byte character (0b10xxxxxx).
IsContinuation(b) == b >= 128 /\ b <= 191

\* Every valid UTF-8 text over Chars of at most n bytes.
RECURSIVE Texts(_)
Texts(n) ==
    IF n = 0 THEN { <<>> }
    ELSE LET shorter == Texts(n - 1)
         IN  shorter \cup { t \o c : t \in shorter, c \in Chars }

ValidTexts == { t \in Texts(MaxBytes) : Len(t) <= MaxBytes }

\* Byte strings a file on disk may hold that are not valid UTF-8: a lone
\* continuation byte and a lead byte cut short.
InvalidFiles == { <<169>>, <<13, 195>> }

\* The names the caller gives to the appended files, by position of the call.
FileNameSeq == << "f1", "f2", "f3", "f4", "f5", "f6" >>

VARIABLES
    contents,       \* SourceFile::contents, as bytes
    file_names,     \* SourceFile::file_names
    file_lines,     \* SourceFile::file_lines
    line_lengths,   \* SourceFile::line_lengths
    calls,          \* history: every (name, text) handed to add_file_raw
    last            \* the last operation called, its arguments and result

vars == << contents, file_names, file_lines, line_lengths, calls, last >>

\* The aggregate as one value.
Self ==
    [ contents     |-> contents,
      file_names   |-> file_names,
      file_lines   |-> file_lines,
      line_lengths |-> line_lengths ]

\* SourceFile::new / Default::default.
new ==
    [ contents     |-> << >>,
      file_names   |-> << >>,
      file_lines   |-> << >>,
      line_lengths |-> << >> ]

\* ------------------------------------------------------------------ builder
\* str::split('\n'): the pieces between newline bytes; n newlines give n + 1
\* pieces, the last of which is empty when the text ends with a newline.
RECURSIVE split(_)
split(s) ==
    IF \A i \in 1..Len(s) : s[i] # NL THEN << s >>
    ELSE LET i == CHOOSE i \in 1..Len(s) :
                      s[i] = NL /\ \A j \in 1..(i - 1) : s[j] # NL
         IN  << SubSeq(s, 1, i - 1) >> \o split(SubSeq(s, i + 1, Len(s)))

\* Faulty variant of line_step: a newline-terminated line is recorded
\* without its newline byte.
line_step_drops_newline(acc, line, more) ==
    IF more
    THEN [ num_lines |-> acc.num_lines + 1,
           pushed    |-> Append(acc.pushed, Len(line)) ]
    ELSE IF Len(line) = 0
    THEN acc
    ELSE [ num_lines |-> acc.num_lines + 1,
           pushed    |-> Append(acc.pushed, Len(line)) ]

\* Faulty variant of line_step: the empty piece after a final newline is
\* recorded as a line of length 0.
line_step_keeps_empty_tail(acc, line, more) ==
    [ num_lines |-> acc.num_lines + 1,
      pushed    |-> Append(acc.pushed, Len(line) + (IF more THEN 1 ELSE 0)) ]

\* Faulty variant of line_step: an unterminated last line is recorded but
\* not counted in the file's number of lines.
line_step_uncounted_tail(acc, line, more) ==
    IF more
    THEN [ num_lines |-> acc.num_lines + 1,
           pushed    |-> Append(acc.pushed, Len(line) + 1) ]
    ELSE IF Len(line) = 0
    THEN acc
    ELSE [ num_lines |-> acc.num_lines,
           pushed    |-> Append(acc.pushed, Len(line)) ]

\* The body of the while-let loop of add_file_raw for one piece: `more` is
\* lines.peek().is_some().
line_step(acc, line, more) ==
    IF more
    THEN [ num_lines |-> acc.num_lines + 1,
           pushed    |-> Append(acc.pushed, Len(line) + 1) ]
    ELSE IF Len(line) = 0
    THEN acc
    ELSE [ num_lines |-> acc.num_lines + 1,
           pushed    |-> Append(acc.pushed, Len(line)) ]

\* The whole loop over the pieces from index i on.
RECURSIVE line_loop(_, _, _)
line_loop(pieces, i, acc) ==
    IF i > Len(pieces) THEN acc
    ELSE line_loop(pieces, i + 1, line_step(acc, pieces[i], i < Len(pieces)))

\* Display::to_string of a name: the names are plain text, kept as they are.
to_string(name) == name

\* Faulty variant of add_file_raw: an empty text is not skipped, and is
\* recorded as a file of no lines.
add_file_raw_keeps_empty(self, name, text) ==
    LET r == line_loop(split(text), 1, [ num_lines |-> 0, pushed |-> << >> ])
    IN  [ contents     |-> self.contents \o text,
          file_names   |-> Append(self.file_names, to_string(name)),
          file_lines   |-> Append(self.file_lines, r.num_lines),
          line_lengths |-> self.line_lengths \o r.pushed ]

\* Faulty variant of add_file_raw: the buffer is assigned instead of
\* appended to.
add_file_raw_overwrites(self, name, text) ==
    IF Len(text) = 0 THEN self
    ELSE LET r == line_loop(split(text), 1,
                            [ num_lines |-> 0, pushed |-> << >> ])
         IN  [ contents     |-> text,
               file_names   |-> Append(self.file_names, to_string(name)),
               file_lines   |-> Append(self.file_lines, r.num_lines),
               line_lengths |-> self.line_lengths \o r.pushed ]

\* SourceFile::add_file_raw.
add_file_raw(self, name, text) ==
    IF Len(text) = 0 THEN self
    ELSE LET r == line_loop(split(text), 1,
                            [ num_lines |-> 0, pushed |-> << >> ])
         IN  [ contents     |-> self.contents \o text,
               file_names   |-> Append(self.file_names, to_string(name)),
               file_lines   |-> Append(self.file_lines, r.num_lines),
               line_lengths |-> self.line_lengths \o r.pushed ]

\* fs::read_to_string: an unreadable file and a file that is not valid UTF-8
\* are errors, anything else is its text.
IsValidUtf8(bytes) ==
    \A i \in 1..Len(bytes) :
        /\ bytes[i] >= 192 => (i < Len(bytes) /\ IsContinuation(bytes[i + 1]))
        /\ IsContinuation(bytes[i]) => (i > 1 /\ bytes[i - 1] >= 192)

read_to_string(file) ==
    IF file.readable /\ IsValidUtf8(file.bytes)
    THEN [ kind |-> "Ok", text |-> file.bytes ]
    ELSE [ kind |-> "Err", text |-> << >> ]

\* Path::display of a path that is valid text.
display(path) == path

\* Faulty variant of add_file: the name is recorded before the file is
\* read, so a failed read leaves a partial entry.
add_file_partial(self, path, file) ==
    LET r == read_to_string(file)
    IN  IF r.kind = "Err"
        THEN [ self |-> [ self EXCEPT
                            !.file_names = Append(@, display(path)) ],
               result |-> "Err" ]
        ELSE [ self |-> add_file_raw(self, display(path), r.text),
               result |-> "Ok" ]

\* SourceFile::add_file: the aggregate after the call and the io::Result.
add_file(self, path, file) ==
    LET r == read_to_string(file)
    IN  IF r.kind = "Err"
        THEN [ self |-> self, result |-> "Err" ]
        ELSE [ self |-> add_file_raw(self, display(path), r.text),
               result |-> "Ok" ]

\* ------------------------------------------------------------------ resolver
None == [ kind |-> "None" ]
Panic == [ kind |-> "Panic" ]
Position(filename, line, col) ==
    [ kind |-> "Some", filename |-> filename, line |-> line, col |-> col ]

\* Faulty variant of line_scan: the loop runs while line_acc < offset, so
\* an offset at the start of a line is put on the line before, and the end
\* of the buffer on the last line.
RECURSIVE line_scan_strict(_, _, _, _)
line_scan_strict(self, offset, line_acc, line_idx) ==
    IF line_acc < offset
    THEN IF line_idx + 1 >= Len(self.line_lengths)
         THEN None
         ELSE line_scan_strict(self, offset,
                               line_acc + self.line_lengths[line_idx + 2],
                               line_idx + 1)
    ELSE [ kind |-> "Found", acc |-> line_acc, idx |-> line_idx ]

\* The first loop of resolve_offset: line_idx is zero based, line_acc the sum
\* of line_lengths[0..=line_idx].
RECURSIVE line_scan(_, _, _, _)
line_scan(self, offset, line_acc, line_idx) ==
    IF line_acc <= offset
    THEN IF line_idx + 1 >= Len(self.line_lengths)
         THEN None
         ELSE line_scan(self, offset,
                        line_acc + self.line_lengths[line_idx + 2],
                        line_idx + 1)
    ELSE [ kind |-> "Found", acc |-> line_acc, idx |-> line_idx ]

\* Faulty variant of file_scan: the scan never leaves the first file.
file_scan_first_file(self, line_idx, file_acc, file_idx) ==
    [ kind |-> "Found", acc |-> self.file_lines[1], idx |-> 0 ]

\* The second loop: the indexing file_lines[file_idx] is unchecked.
RECURSIVE file_scan(_, _, _, _)
file_scan(self, line_idx, file_acc, file_idx) ==
    IF file_acc <= line_idx
    THEN IF file_idx + 1 >= Len(self.file_lines)
         THEN Panic
         ELSE file_scan(self, line_idx,
                        file_acc + self.file_lines[file_idx + 2],
                        file_idx + 1)
    ELSE [ kind |-> "Found", acc |-> file_acc, idx |-> file_idx ]

\* SourceFile::resolve_offset.
resolve_offset(self, offset) ==
    IF Len(self.line_lengths) = 0 THEN None
    ELSE LET l == line_scan(self, offset, self.line_lengths[1], 0)
         IN  IF l.kind = "None" THEN None
             ELSE IF Len(self.file_lines) = 0 THEN Panic
             ELSE
             LET line_acc == l.acc - self.line_lengths[l.idx + 1]
                 f == file_scan(self, l.idx, self.file_lines[1], 0)
             IN  IF f.kind = "Panic" THEN Panic
                 ELSE IF f.idx >= Len(self.file_names) THEN Panic
                 ELSE
                 LET file_acc == f.acc - self.file_lines[f.idx + 1]
                 IN  Position(self.file_names[f.idx + 1],
                              l.idx - file_acc,
                              offset - line_acc)

Span(start, end) == [ kind |-> "Some", start |-> start, end |-> end ]

\* Faulty variant of resolve_offset_span: an empty span (end = start) is
\* rejected too.
resolve_offset_span_rejects_empty(self, start, end) ==
    IF end <= start THEN None
    ELSE LET s == resolve_offset(self, start)
         IN  IF s.kind # "Some" THEN s
             ELSE LET e == resolve_offset(self, end)
                  IN  IF e.kind # "Some" THEN e
                      ELSE Span(s, e)

\* SourceFile::resolve_offset_span.
resolve_offset_span(self, start, end) ==
    IF end < start THEN None
    ELSE LET s == resolve_offset(self, start)
         IN  IF s.kind # "Some" THEN s
             ELSE LET e == resolve_offset(self, end)
                  IN  IF e.kind # "Some" THEN e
                      ELSE Span(s, e)

\* ------------------------------------------------------------------ actions
Init ==
    /\ contents = new.contents
    /\ file_names = new.file_names
    /\ file_lines = new.file_lines
    /\ line_lengths = new.line_lengths
    /\ calls = << >>
    /\ last = [ op |-> "new" ]

Store(s) ==
    /\ contents' = s.contents
    /\ file_names' = s.file_names
    /\ file_lines' = s.file_lines
    /\ line_lengths' = s.line_lengths

\* The texts that still fit the buffer.
Fitting == { t \in ValidTexts : Len(contents) + Len(t) <= MaxBytes }

NextName == FileNameSeq[Len(calls) + 1]

AddFileRaw ==
    /\ Len(calls) < MaxCalls
    /\ \E text \in Fitting :
        /\ Store(add_file_raw(Self, NextName, text))
        /\ calls' = Append(calls, [ name |-> NextName, text |-> text ])
        /\ last' = [ op |-> "add_file_raw", name |-> NextName, text |-> text ]

\* What the file system may hold at a path.
Files ==
    { [ readable |-> FALSE, bytes |-> << >> ] }
        \cup [ readable : { TRUE }, bytes : Fitting \cup InvalidFiles ]

AddFile ==
    /\ Len(calls) < MaxCalls
    /\ \E file \in Files :
        LET r == add_file(Self, NextName, file)
        IN  /\ Store(r.self)
            /\ calls' = IF r.result = "Ok"
                        THEN Append(calls, [ name |-> display(NextName),
                                             text |-> file.bytes ])
                        ELSE calls
            /\ last' = [ op |-> "add_file", path |-> NextName, file |-> file,
                         result |-> r.result ]

\* Offsets a caller may ask for: every byte of the buffer, its end and beyond.
Offsets == 0..(Len(contents) + 1)

ResolveOffset ==
    /\ \E offset \in Offsets :
        last' = [ op |-> "resolve_offset", offset |-> offset,
                  result |-> resolve_offset(Self, offset) ]
    /\ UNCHANGED << contents, file_names, file_lines, line_lengths, calls >>

ResolveOffsetSpan ==
    /\ \E start \in Offsets, end \in Offsets :
        last' = [ op |-> "resolve_offset_span", start |-> start, end |-> end,
                  result |-> resolve_offset_span(Self, start, end) ]
    /\ UNCHANGED << contents, file_names, file_lines, line_lengths, calls >>

Next ==
    \/ AddFileRaw
    \/ AddFile
    \/ ResolveOffset
    \/ ResolveOffsetSpan

Spec == Init /\ [][Next]_vars

\* ------------------------------------------------------------------ reference
\* The tables as one tuple.
tables == << contents, file_names, file_lines, line_lengths >>

RECURSIVE Sum(_)
Sum(seq) == IF Len(seq) = 0 THEN 0 ELSE seq[1] + Sum(Tail(seq))

IsPrefix(s, t) == Len(s) <= Len(t) /\ SubSeq(t, 1, Len(s)) = s

\* The appended file holding byte o of the concatenation of the texts of
\* `calls` from call k on, and the position of that byte within the file.
RECURSIVE Locate(_, _)
Locate(k, o) ==
    IF o < Len(calls[k].text)
    THEN [ name |-> calls[k].name, text |-> calls[k].text, at |-> o ]
    ELSE Locate(k + 1, o - Len(calls[k].text))

\* The position of byte o found by walking the appended texts: the line is
\* the number of newline bytes of the file before the byte, the column the
\* distance back to the byte after the nearest of them (or to the start).
WalkPosition(o) ==
    LET w == Locate(1, o)
        before == { i \in 1..w.at : w.text[i] = NL }
        start == IF before = { } THEN 0
                 ELSE CHOOSE i \in before : \A j \in before : j <= i
    IN  Position(w.name, Cardinality(before), w.at - start)

\* The ends of the lines of a text: every newline byte, and the last byte
\* when it is not a newline.
LineEnds(text) ==
    { i \in 1..Len(text) : text[i] = NL \/ i = Len(text) }

\* The lengths of the lines of a text, each measured from the byte after the
\* end of the line before it to its own end.
LinesOf(text) ==
    LET ends == LineEnds(text)
        nth(k) == CHOOSE e \in ends : Cardinality({ x \in ends : x <= e }) = k
    IN  [ k \in 1..Cardinality(ends) |->
            nth(k) - (IF k = 1 THEN 0 ELSE nth(k - 1)) ]

\* Newline bytes of a text, plus one when it does not end with a newline.
LineCount(text) ==
    Cardinality({ i \in 1..Len(text) : text[i] = NL })
        + (IF text[Len(text)] # NL THEN 1 ELSE 0)

TablesConsistent ==
    /\ Len(file_names) = Len(file_lines)
    /\ Sum(file_lines) = Len(line_lengths)
    /\ Sum(line_lengths) = Len(contents)

\* Two files are recorded, one of them of two lines.
TablesConsistentWitness ==
    /\ Len(file_names) = 2
    /\ Len(line_lengths) = 3
    /\ Len(contents) = 3

\* C4: add_file_raw of a non-empty text appends to line_lengths one entry per
\* line of the text, in order: a newline-terminated line with its length
\* plus 1 (a carriage return before the newline counted as content), an
\* unterminated non-empty last line with its length, nothing for the empty
\* piece after a final newline; and pushes to file_lines the number of
\* newline bytes plus 1 if the text does not end with a newline.
AddFileRawRecordsLines ==
    [][ (last'.op = "add_file_raw" /\ Len(last'.text) > 0)
          => /\ line_lengths' = line_lengths \o LinesOf(last'.text)
             /\ file_lines' = Append(file_lines, LineCount(last'.text))
             /\ last'.text = << 13 >>
                  => line_lengths' = Append(line_lengths, 1)
             /\ last'.text = << NL >>
                  => line_lengths' = Append(line_lengths, 1) ]_vars

\* "\r\n\r" is appended: a line of length 2 and a line of length 1.
AddFileRawRecordsLinesWitness ==
    /\ last.op = "add_file_raw"
    /\ last.text = << 13, NL, 13 >>
    /\ line_lengths = << 2, 1 >>
    /\ file_lines = << 2 >>

\* C5: resolve_offset_span(start, end) is None when end < start, None when
\* resolve_offset(start) or resolve_offset(end) is None (so whenever end is
\* len(contents)), and otherwise the Span of resolve_offset(start) and
\* resolve_offset(end).
SpanMatchesOffsets ==
    last.op = "resolve_offset_span"
        => LET s == resolve_offset(Self, last.start)
               e == resolve_offset(Self, last.end)
           IN  /\ last.end < last.start => last.result = None
               /\ (s = None \/ e = None) => last.result = None
               /\ last.end = Len(contents) => last.result = None
               /\ (last.end >= last.start /\ s # None /\ e # None)
                    => /\ last.result.kind = "Some"
                       /\ last.result.start = s
                       /\ last.result.end = e

\* A span that starts in one file and ends in another.
SpanMatchesOffsetsWitness ==
    /\ last.op = "resolve_offset_span"
    /\ last.result.kind = "Some"
    /\ last.result.start.filename # last.result.end.filename

\* C6: add_file_raw with an empty text changes none of contents, file_names,
\* file_lines and line_lengths.
EmptyAppendIsNoOp ==
    [][ (last'.op = "add_file_raw" /\ last'.text = << >>)
          => UNCHANGED tables ]_vars

\* An empty text was appended to an aggregate that holds a file.
EmptyAppendIsNoOpWitness ==
    /\ last.op = "add_file_raw"
    /\ last.text = << >>
    /\ Len(file_names) > 0

\* C7: resolve_offset panics whenever the offset points into the middle of a
\* multi-byte character of contents.
ResolvePanicsOffBoundary ==
    ( /\ last.op = "resolve_offset"
      /\ last.offset < Len(contents)
      /\ IsContinuation(contents[last.offset + 1]) )
        => last.result = Panic

\* C8: every step is append-only: the values of contents, file_names,
\* file_lines and line_lengths before a call are prefixes of their values
\* after it, and the two resolve operations change none of them.
AppendOnly ==
    [][ /\ IsPrefix(contents, contents')
        /\ IsPrefix(file_names, file_names')
        /\ IsPrefix(file_lines, file_lines')
        /\ IsPrefix(line_lengths, line_lengths')
        /\ last'.op \in { "resolve_offset", "resolve_offset_span" }
             => UNCHANGED tables ]_vars

\* A second non-empty file was appended.
AppendOnlyWitness ==
    /\ last.op \in { "add_file", "add_file_raw" }
    /\ Len(file_names) = 2
    /\ Len(calls[Len(calls)].text) > 0

\* C9: add_file either fails, when the file cannot be read or is not valid
\* text, and then changes none of the tables, or returns Ok with exactly the
\* effect of add_file_raw(display form of the path, text of the file), which
\* is none for an empty file.
AddFileOutcomes ==
    [][ last'.op = "add_file"
          => LET file == last'.file
                 after == add_file_raw(Self, display(last'.path), file.bytes)
             IN  IF ~file.readable \/ ~IsValidUtf8(file.bytes)
                 THEN last'.result = "Err" /\ UNCHANGED tables
                 ELSE /\ last'.result = "Ok"
                      /\ contents' = after.contents
                      /\ file_names' = after.file_names
                      /\ file_lines' = after.file_lines
                      /\ line_lengths' = after.line_lengths
                      /\ file.bytes = << >> => UNCHANGED tables ]_vars

\* A file that is not valid text was read into an aggregate holding a file.
AddFileOutcomesWitness ==
    /\ last.op = "add_file"
    /\ last.result = "Err"
    /\ last.file.readable
    /\ Len(file_names) > 0

\* C10: every recorded file contributes at least one line, and whenever
\* resolve_offset finds the line of an offset its file scan finds the file
\* without indexing file_lines or file_names out of range.
FileScanInRange ==
    /\ \A i \in 1..Len(file_lines) : file_lines[i] >= 1
    /\ \A o \in Offsets : resolve_offset(Self, o) # Panic
    /\ last.op \in { "resolve_offset", "resolve_offset_span" }
         => last.result # Panic

\* An offset of the third of three files is resolved.
FileScanInRangeWitness ==
    /\ last.op = "resolve_offset"
    /\ Len(file_lines) = 3
    /\ last.result.kind = "Some"
    /\ last.result.filename = file_names[3]

====
